---- MODULE Spec2Model ----
(***************************************************************************)
(* sunset: a small HTTP server that keeps one brightness value behind a    *)
(* mutex and, on every change, runs the backlight tool `light` and         *)
(* replaces the running `redshift` process (src/src/main.rs).              *)
(*                                                                         *)
(* Numbers.  The program computes in f32.  A finite f32 is written here as *)
(* a record [cls |-> "fin", n |-> n, e |-> e] that stands for n * 2^-e.    *)
(* Stored brightness values, request inputs and deltas use e = 20 (every   *)
(* f32 of magnitude in [8, 2048) is a multiple of 2^-20); values below 1   *)
(* that the program derives (0.10673, value / 100) use e = 27.  NaN and    *)
(* the infinities are the classes "nan", "pinf" and "ninf".                *)
(***************************************************************************)
EXTENDS Integers, Sequences, FiniteSets

\* ------------------------------------------------------------------ bounds

\* Requests the server receives in one run of the model.
MaxRequests == 2

\* Worker threads of the HTTP server that run handlers concurrently.
NumWorkers == 2

\* Calls made on the Brightness object in one run of BrightnessSpec.
MaxCalls == 3

\* ------------------------------------------------------------- f32 values

\* 1.0 in units of 2^-20, the grid of the stored value.
U == 2^20

\* 1.0 in units of 2^-27, the grid of the derived values below 1.
U27 == 2^27

Fin(n) == [cls |-> "fin", n |-> n, e |-> 20]

Fin27(n) == [cls |-> "fin", n |-> n, e |-> 27]

NaN == [cls |-> "nan", n |-> 0, e |-> 20]

PosInf == [cls |-> "pinf", n |-> 0, e |-> 20]

NegInf == [cls |-> "ninf", n |-> 0, e |-> 20]

\* The spacing of f32 values at magnitude m (m in units of 2^-20, m >= 8.0),
\* in units of 2^-20: 1 in [8,16), 2 in [16,32), 4 in [32,64), ...
RECURSIVE UlpAt(_)
UlpAt(m) == IF m < 16 * U THEN 1 ELSE 2 * UlpAt(m \div 2)

\* n (units of 2^-20) is an f32 value: a multiple of the spacing at |n|.
IsF32(n) == LET m == IF n < 0 THEN -n ELSE n IN m % UlpAt(m) = 0

\* Round-to-nearest, ties-to-even, of the exact number m >= 0 to an f32.
RoundNonNeg(m) ==
  LET u == UlpAt(m)
      q == m \div u
      r == m % u
  IN  IF 2 * r < u THEN q * u
      ELSE IF 2 * r > u THEN (q + 1) * u
      ELSE IF q % 2 = 0 THEN q * u ELSE (q + 1) * u

F32Round(x) == IF x < 0 THEN -RoundNonNeg(-x) ELSE RoundNonNeg(x)

\* a + b in f32 (both on the 2^-20 grid).
F32Add(a, b) ==
  IF a.cls = "nan" \/ b.cls = "nan" THEN NaN
  ELSE IF a.cls = "fin" /\ b.cls = "fin" THEN Fin(F32Round(a.n + b.n))
  ELSE IF a.cls = "fin" THEN b
  ELSE IF b.cls = "fin" \/ a.cls = b.cls THEN a
  ELSE NaN

\* a < b in f32 (both on the 2^-20 grid): false when either is NaN.
F32Lt(a, b) ==
  /\ a.cls # "nan"
  /\ b.cls # "nan"
  /\ \/ a.cls = "ninf" /\ b.cls # "ninf"
     \/ a.cls # "pinf" /\ b.cls = "pinf"
     \/ a.cls = "fin" /\ b.cls = "fin" /\ a.n < b.n

\* f32::max and f32::min: a NaN operand is ignored.
F32Max(a, b) ==
  IF a.cls = "nan" THEN b
  ELSE IF b.cls = "nan" THEN a
  ELSE IF F32Lt(a, b) THEN b ELSE a

F32Min(a, b) ==
  IF a.cls = "nan" THEN b
  ELSE IF b.cls = "nan" THEN a
  ELSE IF F32Lt(b, a) THEN b ELSE a

\* v / 100.0 in f32 for a finite v with 6.25 <= v <= 100, on the 2^-27 grid:
\* the exact quotient is v.n * 32 / 25 units of 2^-27, rounded to the spacing
\* u of the binade it falls in.
F32DivHundred(v) ==
  IF v.cls # "fin" THEN v
  ELSE
    LET u == IF v.n >= 50 * U THEN 8
             ELSE IF v.n >= 25 * U THEN 4
             ELSE IF 2 * v.n >= 25 * U THEN 2 ELSE 1
        k == (32 \div u) * v.n
        q == k \div 25
        r == k % 25
    IN  Fin27((IF 2 * r > 25 THEN q + 1 ELSE q) * u)

\* ------------------------------------------------------------- Brightness

\* The literals of the source, as the f32 values rustc reads them as.
Ten == Fin(10 * U)

TwoHundred == Fin(200 * U)

Hundred == Fin(100 * U)

Five == Fin(5 * U)

MinusFive == Fin(-5 * U)

\* 100.10673f32 = 104969512 * 2^-20 (the f32 nearest to 100.10673).
LightThreshold == Fin(104969512)

\* 0.10673 as f32 = 14325058 * 2^-27.
LightFloor == Fin27(14325058)

\* 1.0, as a derived value.
One == Fin27(U27)

\* to_light with the comparison written <= : 100.10673 itself gets 0.10673.
to_light_le(value) ==
  IF ~F32Lt(LightThreshold, value) /\ value.cls # "nan" THEN LightFloor
  ELSE F32Add(value, Fin(-100 * U))

\* Brightness::to_light
to_light(value) ==
  IF F32Lt(value, LightThreshold) THEN LightFloor
  ELSE F32Add(value, Fin(-100 * U))

\* Brightness::to_redshift
to_redshift(value) ==
  IF F32Lt(Hundred, value) THEN One
  ELSE F32DivHundred(value)

\* set without its upper bound: value.max(10.0).
set_no_upper(v) == F32Max(v, Ten)

\* set written with comparisons, which a NaN passes through.
set_by_comparison(v) ==
  IF F32Lt(v, Ten) THEN Ten
  ELSE IF F32Lt(TwoHundred, v) THEN TwoHundred
  ELSE v

\* set with 100.0 for its upper bound.
set_upper_hundred(v) == F32Min(F32Max(v, Ten), Hundred)

\* Brightness::set: the value stored.
set(v) == F32Min(F32Max(v, Ten), TwoHundred)

\* change that stores the sum as it is.
change_unclamped(value, amount) == F32Add(value, amount)

\* Brightness::change: the value stored, from the current one.
change(value, amount) == set(F32Add(value, amount))

\* ------------------------------------------------------------------ inputs

\* What `light` prints at startup, parsed (get_screen_brightness): a
\* percentage between 0 and 100.  24127734 * 2^-20 is the f32 that "23.01"
\* parses to; 100 more is 123.01000213623047, whose sum with 5 is not an f32.
InitReadings == {Fin(0), Fin(24127734), Fin(50 * U), Fin(98 * U)}

\* The brightness parameter of a /set request, parsed as f32: below, inside
\* and above the clamp interval, and a NaN, which parse::<f32> accepts.
SetInputs == {NaN, Fin(5 * U), Fin(50 * U), Fin(203 * U)}

Workers == 1..NumWorkers

\* ------------------------------------------------------------------- state

VARIABLES
  value,             \* AppData.brightness.value
  redshift_process,  \* AppData.redshift_process: index into daemons
  daemons,           \* every redshift process spawned: [alive, factor]
  lightArg,          \* the level the last `light -S` was started with
  lightRunning,      \* run_light has spawned `light -S` and is waiting on it
  lock,              \* AppState.data: 0 when free, else the worker holding it
  req,               \* per worker: the request it is handling
  started,           \* requests received (BrightnessSpec: calls made) so far
  hist,              \* BrightnessSpec only: the last two calls, oldest first
  ledger             \* the start value and the mutations made, any failure

vars ==
  <<value, redshift_process, daemons, lightArg, lightRunning, lock, req,
    started, hist, ledger>>

\* No f32: the argument of a request that has none, the level before any run.
NoValue == [cls |-> "none", n |-> 0, e |-> 0]

\* A worker that handles no request.
IdleReq ==
  [kind |-> "none", arg |-> NoValue, pc |-> "idle", body |-> NoValue,
   lights |-> 0, spawns |-> 0, killFailed |-> FALSE, fail |-> "none"]

\* get_screen_brightness: the Brightness built from the reading.
get_screen_brightness(reading) == F32Add(reading, Hundred)

\* main: AppData as constructed from a reading, before the server runs.
Constructed(readings) ==
  /\ \E reading \in readings : value = get_screen_brightness(reading)
  /\ daemons = <<[alive |-> TRUE, factor |-> One]>>
  /\ redshift_process = 1
  /\ lightArg = NoValue
  /\ lightRunning = FALSE
  /\ lock = 0
  /\ req = [w \in Workers |-> IdleReq]
  /\ started = 0
  /\ hist = <<>>
  /\ ledger = [start |-> value, kind |-> "none", n |-> 0, failed |-> FALSE]

Init == Constructed(InitReadings)

\* ----------------------------------------------------------------- actions

\* No request is in flight.
Settled == \A w \in Workers : req[w].pc \in {"idle", "done", "panicked"}

\* HttpServer: the first worker that handles no request takes the next one
\* (the workers are interchangeable).  A request that arrives while none is
\* in flight opens a new batch of concurrent requests in the ledger.
Receive(w, kind, arg) ==
  /\ req[w].pc \in {"idle", "done", "panicked"}
  /\ \A x \in Workers : x < w => req[x].pc \notin {"idle", "done", "panicked"}
  /\ started < MaxRequests
  /\ started' = started + 1
  /\ req' = [req EXCEPT ![w] = [IdleReq EXCEPT !.kind = kind, !.arg = arg,
                                               !.pc = "start"]]
  /\ ledger' = IF Settled
               THEN [ledger EXCEPT !.start = value, !.kind = "none", !.n = 0]
               ELSE ledger
  /\ UNCHANGED <<value, redshift_process, daemons, lightArg, lightRunning,
                 lock, hist>>

\* The ledger after one more mutation of the given kind: it counts the
\* mutations for as long as all of them are /brighter, or all /darker.
Entered(kind) ==
  IF kind # "set" /\ ledger.kind \in {"none", kind}
  THEN [ledger EXCEPT !.kind = kind, !.n = @ + 1]
  ELSE [ledger EXCEPT !.start = NoValue, !.kind = "mixed", !.n = 0]

\* A handler that takes one guard for both of its statements.
Mutate_one_guard(w, kind, after) ==
  /\ req[w].pc = "start"
  /\ req[w].kind = kind
  /\ lock = 0
  /\ lock' = w
  /\ value' = after
  /\ ledger' = Entered(kind)
  /\ req' = [req EXCEPT ![w].pc = "kill"]
  /\ UNCHANGED <<redshift_process, daemons, lightArg, lightRunning, started,
                 hist>>

\* A handler whose first guard lives to the end of the handler.
Mutate_keeps_guard(w, kind, after) ==
  /\ req[w].pc = "start"
  /\ req[w].kind = kind
  /\ lock = 0
  /\ lock' = w
  /\ value' = after
  /\ ledger' = Entered(kind)
  /\ req' = [req EXCEPT ![w].pc = "restart"]
  /\ UNCHANGED <<redshift_process, daemons, lightArg, lightRunning, started,
                 hist>>

\* The first statement of a mutating handler: lock, store, unlock.
Mutate(w, kind, after) ==
  /\ req[w].pc = "start"
  /\ req[w].kind = kind
  /\ lock = 0
  /\ value' = after
  /\ ledger' = Entered(kind)
  /\ req' = [req EXCEPT ![w].pc = "restart"]
  /\ UNCHANGED <<redshift_process, daemons, lightArg, lightRunning, lock,
                 started, hist>>

\* set_handler, line 107
set_handler_set(w) == Mutate(w, "set", set(req[w].arg))

\* brighter_handler that adds 5 to a value read before the other /brighter
\* requests stored theirs.
brighter_handler_change_stale(w) ==
  Mutate(w, "brighter",
         change(IF ledger.kind = "brighter" THEN ledger.start ELSE value,
                Five))

\* brighter_handler, line 117
brighter_handler_change(w) == Mutate(w, "brighter", change(value, Five))

\* darker_handler, line 123
darker_handler_change(w) == Mutate(w, "darker", change(value, MinusFive))

\* get_handler that goes on to restart, as the other handlers do.
get_handler_restarts(w) ==
  /\ req[w].pc = "start"
  /\ req[w].kind = "get"
  /\ lock = 0
  /\ req' = [req EXCEPT ![w].pc = "restart", ![w].body = value]
  /\ UNCHANGED <<value, redshift_process, daemons, lightArg, lightRunning,
                 lock, started, hist, ledger>>

\* get_handler: lock, read, unlock, answer.
get_handler(w) ==
  /\ req[w].pc = "start"
  /\ req[w].kind = "get"
  /\ lock = 0
  /\ req' = [req EXCEPT ![w].pc = "done", ![w].body = value]
  /\ UNCHANGED <<value, redshift_process, daemons, lightArg, lightRunning,
                 lock, started, hist, ledger>>

\* A handler that returns Ok(()) after its first statement.
lock_restart_skip(w) ==
  /\ req[w].pc = "restart"
  /\ lock = 0
  /\ req' = [req EXCEPT ![w].pc = "done"]
  /\ UNCHANGED <<value, redshift_process, daemons, lightArg, lightRunning,
                 lock, started, hist, ledger>>

\* A restart entered without waiting for the lock.
lock_restart_unguarded(w) ==
  /\ req[w].pc = "restart"
  /\ lock' = w
  /\ req' = [req EXCEPT ![w].pc = "kill"]
  /\ UNCHANGED <<value, redshift_process, daemons, lightArg, lightRunning,
                 started, hist, ledger>>

\* The second statement of a mutating handler takes the lock for restart.
lock_restart(w) ==
  /\ req[w].pc = "restart"
  /\ lock = 0
  /\ lock' = w
  /\ req' = [req EXCEPT ![w].pc = "kill"]
  /\ UNCHANGED <<value, redshift_process, daemons, lightArg, lightRunning,
                 started, hist, ledger>>

\* An unwrap() on an Err: the handler unwinds, the guard is dropped.
Panic(w, why) ==
  /\ lock' = 0
  /\ req' = [req EXCEPT ![w].pc = "panicked", ![w].fail = why]
  /\ ledger' = [ledger EXCEPT !.failed = TRUE]

\* kill_child that unwraps the result of kill().
kill_child_propagates(w) ==
  /\ req[w].pc = "kill"
  /\ \/ /\ daemons' = [daemons EXCEPT ![redshift_process].alive = FALSE]
        /\ req' = [req EXCEPT ![w].pc = "light"]
        /\ lock' = lock
        /\ ledger' = ledger
     \/ /\ daemons' = daemons
        /\ Panic(w, "kill")
  /\ UNCHANGED <<value, redshift_process, lightArg, lightRunning, started,
                 hist>>

\* AppData::kill_child: the kill succeeds, or fails and is only reported.
kill_child(w) ==
  /\ req[w].pc = "kill"
  /\ \/ /\ daemons' = [daemons EXCEPT ![redshift_process].alive = FALSE]
        /\ req' = [req EXCEPT ![w].pc = "light"]
     \/ /\ daemons' = daemons
        /\ req' = [req EXCEPT ![w].pc = "light", ![w].killFailed = TRUE]
  /\ UNCHANGED <<value, redshift_process, lightArg, lightRunning, lock,
                 started, hist, ledger>>

\* run_light that spawns the tool and does not wait on it.
run_light_spawn_nowait(w) ==
  /\ req[w].pc = "light"
  /\ \/ /\ lightArg' = to_light(value)
        /\ lightRunning' = TRUE
        /\ req' = [req EXCEPT ![w].pc = "redshift"]
        /\ lock' = lock
        /\ ledger' = ledger
     \/ /\ Panic(w, "light_spawn")
        /\ UNCHANGED <<lightArg, lightRunning>>
  /\ UNCHANGED <<value, redshift_process, daemons, started, hist>>

\* run_light, spawn()?: `light -S <level>` starts, or cannot be spawned.
run_light_spawn(w) ==
  /\ req[w].pc = "light"
  /\ \/ /\ lightArg' = to_light(value)
        /\ lightRunning' = TRUE
        /\ req' = [req EXCEPT ![w].pc = "wait"]
        /\ lock' = lock
        /\ ledger' = ledger
     \/ /\ Panic(w, "light_spawn")
        /\ UNCHANGED <<lightArg, lightRunning>>
  /\ UNCHANGED <<value, redshift_process, daemons, started, hist>>

\* run_light, wait()?: the tool has exited, or waiting on it fails.
run_light_wait(w) ==
  /\ req[w].pc = "wait"
  /\ \/ /\ lightRunning' = FALSE
        /\ req' = [req EXCEPT ![w].pc = "redshift",
                              ![w].lights = req[w].lights + 1]
        /\ lock' = lock
        /\ ledger' = ledger
     \/ /\ Panic(w, "light_wait")
        /\ lightRunning' = FALSE
  /\ UNCHANGED <<value, redshift_process, daemons, lightArg, started, hist>>

\* restart that spawns the daemon as main does, with run_redshift(1.0).
run_redshift_as_main(w) ==
  /\ req[w].pc = "redshift"
  /\ \/ /\ daemons' = Append(daemons, [alive |-> TRUE, factor |-> One])
        /\ redshift_process' = Len(daemons) + 1
        /\ lock' = 0
        /\ ledger' = ledger
        /\ req' = [req EXCEPT ![w].pc = "done",
                              ![w].spawns = req[w].spawns + 1]
     \/ /\ Panic(w, "redshift_spawn")
        /\ UNCHANGED <<daemons, redshift_process>>
  /\ UNCHANGED <<value, lightArg, lightRunning, started, hist>>

\* run_redshift and the rest of restart: the new daemon is spawned and its
\* handle stored, the guard is dropped and the handler returns Ok(()); or the
\* spawn fails.
run_redshift(w) ==
  /\ req[w].pc = "redshift"
  /\ \/ /\ daemons' = Append(daemons, [alive |-> TRUE,
                                       factor |-> to_redshift(value)])
        /\ redshift_process' = Len(daemons) + 1
        /\ lock' = 0
        /\ ledger' = ledger
        /\ req' = [req EXCEPT ![w].pc = "done",
                              ![w].spawns = req[w].spawns + 1]
     \/ /\ Panic(w, "redshift_spawn")
        /\ UNCHANGED <<daemons, redshift_process>>
  /\ UNCHANGED <<value, lightArg, lightRunning, started, hist>>

\* AppData::restart, step by step, under the lock.
restart(w) ==
  \/ kill_child(w)
  \/ run_light_spawn(w)
  \/ run_light_wait(w)
  \/ run_redshift(w)

Next ==
  \/ \E w \in Workers :
       \/ \E kind \in {"get", "brighter", "darker"} : Receive(w, kind, NoValue)
       \/ \E arg \in SetInputs : Receive(w, "set", arg)
  \/ \E w \in Workers : set_handler_set(w)
  \/ \E w \in Workers : brighter_handler_change(w)
  \/ \E w \in Workers : darker_handler_change(w)
  \/ \E w \in Workers : get_handler(w)
  \/ \E w \in Workers : lock_restart(w)
  \/ \E w \in Workers : restart(w)

Spec == Init /\ [][Next]_vars

\* ------------------------------------------------ the server, scheduled

\* Every step of the handler that worker w runs.
Handler(w) ==
  \/ set_handler_set(w)
  \/ brighter_handler_change(w)
  \/ darker_handler_change(w)
  \/ get_handler(w)
  \/ lock_restart(w)
  \/ restart(w)

\* The server from one start value, with one /set input.
LiveNext ==
  \/ \E w \in Workers :
       \E kind \in {"get", "set", "brighter", "darker"} :
         Receive(w, kind, IF kind = "set" THEN Fin(5 * U) ELSE NoValue)
  \/ \E w \in Workers : Handler(w)

\* Each worker is a thread that the system keeps running: a step it can take
\* for good, it takes.  The steps under the lock are always possible for the
\* holder (the wait on `light` returns); the steps that take the lock are
\* possible whenever it is free.
LiveSpec ==
  /\ Constructed({Fin(50 * U)})
  /\ [][LiveNext]_vars
  /\ \A w \in Workers : WF_vars(Handler(w))

\* ------------------------------------------- the Brightness object alone

\* The readings BrightnessSpec starts from; 50 + 2^-18 is a reading whose sum
\* with 100 is not an f32.
CallReadings ==
  {Fin(0), Fin(50 * U), Fin(50 * U + 4), Fin(98 * U), Fin(100 * U)}

\* The arguments of set: the non-finite values, values below, at, inside and
\* above the clamp bounds, the two sides of the to_light threshold, and
\* 12 + 2^-20, whose sum with 5 is not an f32.
CallInputs ==
  { NaN, PosInf, NegInf, Fin(-3 * U), Fin(5 * U), Ten, Fin(12 * U + 1),
    Fin(50 * U), Hundred, Fin(LightThreshold.n - 8), LightThreshold,
    Fin(195 * U), TwoHundred, Fin(203 * U) }

\* The arguments of change: those of the handlers, and others.
Deltas == {Five, MinusFive, Fin(3 * U), Fin(-250 * U), Fin(U + 1), NaN}

\* The call just made, appended to the one before it.
Remember(op, arg, after, out) ==
  LET c == [op |-> op, arg |-> arg, before |-> value, after |-> after,
            out |-> out]
  IN  IF hist = <<>> THEN <<c>> ELSE <<hist[Len(hist)], c>>

\* A call on the Brightness object that stores `after` and returns `out`.
Call(op, arg, after, out) ==
  /\ started < MaxCalls
  /\ started' = started + 1
  /\ value' = after
  /\ hist' = Remember(op, arg, after, out)
  /\ UNCHANGED <<redshift_process, daemons, lightArg, lightRunning, lock, req,
                 ledger>>

\* Brightness::set(v)
call_set(v) == Call("set", v, set(v), NoValue)

\* Brightness::change(amount)
call_change(amount) == Call("change", amount, change(value, amount), NoValue)

\* Brightness::to_light(): &self, the value is not written.
call_to_light == Call("to_light", NoValue, value, to_light(value))

\* Brightness::to_redshift(): &self, the value is not written.
call_to_redshift == Call("to_redshift", NoValue, value, to_redshift(value))

BrightnessNext ==
  \/ \E v \in CallInputs : call_set(v)
  \/ \E amount \in Deltas : call_change(amount)
  \/ call_to_light
  \/ call_to_redshift

BrightnessSpec == Constructed(CallReadings) /\ [][BrightnessNext]_vars

\* ------------------------------------------------------------------ typing

IsValue(v) == v.cls = "fin" /\ v.e = 20 /\ IsF32(v.n)

TypeOK ==
  /\ IsValue(value)
  /\ redshift_process \in 1..Len(daemons)
  /\ lock \in Workers \cup {0}
  /\ started \in 0..(MaxRequests + MaxCalls)
  /\ Len(hist) <= 2
  /\ ledger.kind \in {"none", "brighter", "darker", "mixed"}
  /\ ledger.kind # "mixed" => IsValue(ledger.start)
  /\ ledger.n <= MaxRequests
  /\ \A w \in Workers :
       req[w].pc \in {"idle", "start", "restart", "kill", "light", "wait",
                      "redshift", "done", "panicked"}

\* ------------------------------------------------------- claims: Brightness

\* The last call made on the Brightness object (BrightnessSpec).
LastCall == hist[Len(hist)]

\* v < 10, v > 200 and "otherwise", read as the claim reads them.
ClampedAsClaimed(v) ==
  IF F32Lt(v, Ten) THEN Ten
  ELSE IF F32Lt(TwoHundred, v) THEN TwoHundred
  ELSE v

\* The same, with the one case the three above leave out: a NaN gives 10.
Clamped(v) == IF v.cls = "nan" THEN Ten ELSE ClampedAsClaimed(v)

\* C1: in every reachable state of the server the stored brightness is a
\* finite number with 10 <= value <= 200.
C1_ValueInRange ==
  /\ value.cls = "fin"
  /\ value.e = 20
  /\ 10 * U <= value.n
  /\ value.n <= 200 * U

\* C1 witness: a /set?brightness=203 request has completed and the value
\* stored is 200.
C1_Witness ==
  \E w \in Workers :
    /\ req[w].kind = "set"
    /\ req[w].arg = Fin(203 * U)
    /\ req[w].pc = "done"
    /\ value = TwoHundred

\* C2 as claimed: after set(v) the stored value is 10 if v < 10, 200 if
\* v > 200, and v otherwise.
C2_SetAsClaimed ==
  (hist # <<>> /\ LastCall.op = "set") =>
    value = ClampedAsClaimed(LastCall.arg)

\* C2 as amended: after set(v) the stored value is 10 if v < 10 or v is NaN,
\* 200 if v > 200, and v otherwise.
C2_SetClamps ==
  (hist # <<>> /\ LastCall.op = "set") =>
    /\ value = Clamped(LastCall.arg)
    /\ LastCall.after = value

\* C2 witness: set(5) has just left the stored value at 10.
C2_Witness ==
  /\ hist # <<>>
  /\ LastCall.op = "set"
  /\ LastCall.arg = Fin(5 * U)
  /\ value = Ten

\* C3: after change(d) on stored value c the stored value is what set(c + d)
\* stores, the f32 sum c + d clamped to [10, 200]; change(5) on 198 stores
\* 200 and change(-5) on 12 stores 10.
C3_ChangeIsSetOfSum ==
  /\ (hist # <<>> /\ LastCall.op = "change") =>
       value = Clamped(F32Add(LastCall.before, LastCall.arg))
  /\ change(Fin(198 * U), Five) = TwoHundred
  /\ change(Fin(12 * U), MinusFive) = Ten

\* C3 witness: change(5) has just been called on 198 and 200 is stored.
C3_Witness ==
  /\ hist # <<>>
  /\ LastCall.op = "change"
  /\ LastCall.arg = Five
  /\ LastCall.before = Fin(198 * U)
  /\ value = TwoHundred

\* The last two calls were change(5) and then change(-5).
UpThenDown ==
  /\ Len(hist) = 2
  /\ hist[1].op = "change"
  /\ hist[1].arg = Five
  /\ hist[2].op = "change"
  /\ hist[2].arg = MinusFive

\* C4 as claimed: from every stored value in [10, 200], change(5) and then
\* change(-5) leave the stored value where it started.
C4_RoundTripAsClaimed == UpThenDown => value = hist[1].before

\* C4 as amended: from every stored value v with 10 <= v <= 195 for which
\* v + 5 is an f32, change(5) and then change(-5) leave v stored.
C4_RoundTrip ==
  (/\ UpThenDown
   /\ hist[1].before.n <= 195 * U
   /\ IsF32(hist[1].before.n + 5 * U)) => value = hist[1].before

\* C4 witness: change(5) and change(-5) from 150 have come back to 150 by
\* way of 155.
C4_Witness ==
  /\ UpThenDown
  /\ hist[1].before = Fin(150 * U)
  /\ hist[1].after = Fin(155 * U)
  /\ value = Fin(150 * U)

\* q (on the 2^-27 grid) is an f32 within half a spacing of v / 100: with
\* v.n = 25 a + b the exact quotient is 32 a + 32 b / 25 units of 2^-27.
IsHundredth(q, v) ==
  LET u == IF q.n >= 2^26 THEN 8
           ELSE IF q.n >= 2^25 THEN 4
           ELSE IF q.n >= 2^24 THEN 2 ELSE 1
      a == v.n \div 25
      b == v.n % 25
      d == 50 * (q.n - 32 * a) - 64 * b
  IN  /\ q.cls = "fin"
      /\ q.e = 27
      /\ q.n % u = 0
      /\ d <= 25 * u
      /\ -d <= 25 * u

\* C5: to_light and to_redshift return what the formulas give for the stored
\* value and leave it as it is: the light level is 0.10673 below 100.10673
\* and value - 100 from there on, the factor is 1.0 above 100 and value / 100
\* up to 100 (150 gives 50 and 1.0, 50 gives 0.10673 and 0.5, 100 gives 1.0).
C5_Derived ==
  /\ (hist # <<>> /\ LastCall.op = "to_light") =>
       /\ value = LastCall.before
       /\ LastCall.out =
            IF LastCall.before.n < LightThreshold.n THEN LightFloor
            ELSE Fin(LastCall.before.n - 100 * U)
  /\ (hist # <<>> /\ LastCall.op = "to_redshift") =>
       /\ value = LastCall.before
       /\ IF LastCall.before.n > 100 * U THEN LastCall.out = One
          ELSE IsHundredth(LastCall.out, LastCall.before)
  /\ to_light(Fin(150 * U)) = Fin(50 * U)
  /\ to_redshift(Fin(150 * U)) = One
  /\ to_light(Fin(50 * U)) = LightFloor
  /\ to_redshift(Fin(50 * U)) = Fin27(2^26)
  /\ to_redshift(Hundred) = One

\* C5 witness: to_light has just been called on exactly 100.10673 and has
\* returned value - 100, not 0.10673.
C5_Witness ==
  /\ hist # <<>>
  /\ LastCall.op = "to_light"
  /\ LastCall.before = LightThreshold
  /\ LastCall.out = Fin(LightThreshold.n - 100 * U)
  /\ value = LightThreshold

\* ----------------------------------------------------------- claims: server

Mutating == {"set", "brighter", "darker"}

\* C6: a mutating request that completes has, after its mutation of the
\* stored value, run the backlight tool to completion once and replaced the
\* daemon once; neither has happened before its restart cycle began.
C6_RestartFollows ==
  \A w \in Workers :
    req[w].kind \in Mutating =>
      /\ req[w].pc \in {"start", "restart", "kill", "light"} =>
           req[w].lights = 0 /\ req[w].spawns = 0
      /\ req[w].pc \in {"wait", "redshift"} => req[w].spawns = 0
      /\ req[w].pc = "done" => req[w].lights = 1 /\ req[w].spawns = 1

\* C6 witness: a /darker request has completed after one backlight run and
\* one daemon replacement.
C6_Witness ==
  \E w \in Workers :
    /\ req[w].kind = "darker"
    /\ req[w].pc = "done"
    /\ req[w].lights = 1
    /\ req[w].spawns = 1

\* The steps of one restart cycle, in the order they may follow each other.
CycleOrder ==
  { <<"kill", "light">>, <<"light", "wait">>, <<"wait", "redshift">>,
    <<"redshift", "done">>, <<"light", "panicked">>, <<"wait", "panicked">>,
    <<"redshift", "panicked">> }

\* One step of the server, as C7 allows it.
C7_Step ==
  \* the cycle's steps follow each other in the order kill, light, spawn
  /\ \A w \in Workers :
       (req[w].pc \in {"kill", "light", "wait", "redshift"}
          /\ req'[w].pc # req[w].pc) =>
         <<req[w].pc, req'[w].pc>> \in CycleOrder
  \* the daemon is killed by the cycle's first step only
  /\ (daemons[redshift_process].alive /\ Len(daemons') = Len(daemons)
        /\ ~daemons'[redshift_process].alive) =>
       (lock # 0 /\ req[lock].pc = "kill")
  \* the backlight tool is started after the kill, with the light level of
  \* the stored value
  /\ (lightRunning' /\ ~lightRunning) =>
       /\ lock # 0
       /\ req[lock].pc = "light"
       /\ ~daemons[redshift_process].alive \/ req[lock].killFailed
       /\ lightArg' = to_light(value)
  \* the new daemon is spawned once the tool has exited, with the factor of
  \* the stored value, and its handle is stored
  /\ Len(daemons') # Len(daemons) =>
       /\ lock # 0
       /\ req[lock].pc = "redshift"
       /\ req[lock].lights = 1
       /\ ~lightRunning
       /\ lightArg = to_light(value)
       /\ daemons' = Append(daemons, [alive |-> TRUE,
                                      factor |-> to_redshift(value)])
       /\ redshift_process' = Len(daemons')
  \* the stored value is not written while a cycle runs
  /\ lock # 0 => value' = value

\* C7: within one restart cycle the daemon is killed, then the backlight
\* tool is run with the light level of the stored value and waited on, and
\* only then a new daemon is spawned with the factor of the stored value and
\* its handle stored; the cycle leaves the stored value as it is.
C7_CycleOrder == [][C7_Step]_vars

\* C7 witness: a cycle whose kill and backlight run are over and whose daemon
\* is not yet spawned: the old daemon is dead, the tool has exited after
\* being given the light level of the stored value.
C7_Witness ==
  \E w \in Workers :
    /\ lock = w
    /\ req[w].pc = "redshift"
    /\ ~req[w].killFailed
    /\ ~daemons[redshift_process].alive
    /\ ~lightRunning
    /\ lightArg = to_light(value)
    /\ value = Fin(155 * U)

\* The daemons that are running.
Live == {i \in 1..Len(daemons) : daemons[i].alive}

\* C8 as claimed: two daemons are never alive together, and whenever no
\* restart cycle is running the stored handle is that of the one live
\* daemon, also after cycles in which the kill or a spawn failed.
C8_OneLiveDaemon ==
  /\ Cardinality(Live) <= 1
  /\ lock = 0 => Live = {redshift_process}

\* C9 as claimed: a request whose backlight run or daemon spawn failed ends
\* with an Err result returned to the HTTP layer.
C9_FailureReturned ==
  \A w \in Workers : req[w].fail # "none" => req[w].pc = "err"

\* C10: a failed kill does not stop the cycle it is part of and is not
\* reported by the request: the cycle goes on to the backlight tool, a
\* request that unwinds does so because of the tool or the spawn, and one
\* that completes after a failed kill has run the tool and stored a new,
\* running daemon.
C10_KillFailureSwallowed ==
  \A w \in Workers :
    /\ req[w].killFailed =>
         req[w].pc \in {"light", "wait", "redshift", "done", "panicked"}
    /\ (req[w].killFailed /\ req[w].pc = "light") =>
         ENABLED run_light_spawn(w)
    /\ req[w].pc = "panicked" =>
         req[w].fail \in {"light_spawn", "light_wait", "redshift_spawn"}
    /\ (req[w].killFailed /\ req[w].pc = "done") =>
         /\ req[w].fail = "none"
         /\ req[w].lights = 1
         /\ req[w].spawns = 1

\* C10 witness: a request whose kill failed has completed without error, and
\* the handle stored is that of a daemon spawned after the one it could not
\* kill.
C10_Witness ==
  \E w \in Workers :
    /\ req[w].killFailed
    /\ req[w].pc = "done"
    /\ req[w].fail = "none"
    /\ started = 1
    /\ redshift_process = 2
    /\ daemons[2].alive
    /\ daemons[1].alive

\* One step of the server, as C11 allows it: the step a /get request takes
\* is made with the lock free, answers with the stored value and writes
\* nothing else.
C11_Step ==
  \A w \in Workers :
    (req[w].kind = "get" /\ req[w].pc = "start" /\ req'[w] # req[w]) =>
      /\ lock = 0
      /\ req'[w] = [req[w] EXCEPT !.pc = "done", !.body = value]
      /\ UNCHANGED <<value, redshift_process, daemons, lightArg,
                     lightRunning, lock>>

\* A /get request is before or after its one step and has taken no part in
\* a restart cycle.
C11_NoCycle ==
  \A w \in Workers :
    req[w].kind = "get" =>
      /\ req[w].pc \in {"start", "done"}
      /\ req[w].lights = 0
      /\ req[w].spawns = 0
      /\ ~req[w].killFailed
      /\ req[w].fail = "none"

\* C11: a /get request leaves the stored value and the daemon handle as they
\* are, kills nothing, runs no backlight tool and spawns no daemon, and
\* answers with the value stored at the moment it holds the lock.
C11_GetHasNoEffect == []C11_NoCycle /\ [][C11_Step]_vars

\* C11 witness: a /get request, the only request so far, has been answered
\* with the start value 198; the first daemon is still the one stored and no
\* backlight tool has run.
C11_Witness ==
  \E w \in Workers :
    /\ req[w].kind = "get"
    /\ req[w].pc = "done"
    /\ req[w].body = Fin(198 * U)
    /\ started = 1
    /\ value = Fin(198 * U)
    /\ redshift_process = 1
    /\ daemons = <<[alive |-> TRUE, factor |-> One]>>
    /\ lightArg = NoValue

\* C12: a mutating handler takes the lock twice: the guard of the statement
\* that stores the value is gone before the statement that restarts takes its
\* own, so between the two the lock is free and other requests can store
\* values; the restart then reads whatever value is stored.  The witness is
\* the race: a request whose restart applied the outputs of a value that
\* another request stored.
C12_Step ==
  \A w \in Workers :
    (req[w].kind \in Mutating /\ req'[w] # req[w]) =>
      /\ req[w].pc = "start" =>
           lock = 0 /\ lock' = 0 /\ req'[w].pc = "restart"
      /\ req[w].pc = "restart" =>
           lock = 0 /\ lock' = w /\ req'[w].pc = "kill" /\ value' = value

C12_Released ==
  \A w \in Workers : req[w].pc \in {"start", "restart"} => lock # w

C12_LockReleasedBetween == []C12_Released /\ [][C12_Step]_vars

C12_Witness ==
  /\ started = 2
  /\ req[1].kind = "set" /\ req[1].pc = "done" /\ req[1].spawns = 1
  /\ req[2].kind = "set" /\ req[2].pc = "restart"
  /\ value = set(req[2].arg)
  /\ lightArg = to_light(set(req[2].arg))
  /\ lightArg # to_light(set(req[1].arg))
  /\ daemons[redshift_process].factor = to_redshift(set(req[2].arg))
  /\ daemons[redshift_process].factor # to_redshift(set(req[1].arg))

\* C13: when no request is in flight and no restart has failed, the daemon
\* whose handle is stored blends by to_redshift of the stored value, and the
\* last argument given to `light`, if it ever ran, is to_light of it.
Quiet == \A w \in Workers : req[w].pc \in {"idle", "done"}

C13_Consistent ==
  (Quiet /\ ~ledger.failed) =>
    /\ lightArg # NoValue => lightArg = to_light(value)
    /\ daemons[redshift_process].alive
    /\ daemons[redshift_process].factor = to_redshift(value)

C13_Witness ==
  /\ Quiet
  /\ ~ledger.failed
  /\ started = 2
  /\ \A w \in Workers : req[w].kind = "set" /\ req[w].spawns = 1
  /\ set(req[1].arg) = Fin(200 * U)
  /\ value = set(req[2].arg)
  /\ value = Fin(50 * U)
  /\ lightArg = LightFloor
  /\ daemons[redshift_process].factor = Fin27(U27 \div 2)

\* C14: at most one request is inside a restart at a time; the one that is
\* holds the lock from the kill to the spawn of the daemon; only it touches
\* the subprocesses and the handle, and the value is stored only while no
\* restart is under way.
InCycle(w) == req[w].pc \in {"kill", "light", "wait", "redshift"}

C14_Exclusive ==
  /\ \A w \in Workers : InCycle(w) <=> lock = w
  /\ Cardinality({w \in Workers : InCycle(w)}) <= 1

C14_Step ==
  /\ value' # value => lock = 0 /\ \A w \in Workers : ~InCycle(w)
  /\ <<redshift_process, daemons, lightArg, lightRunning>>' #
       <<redshift_process, daemons, lightArg, lightRunning>> =>
       /\ lock # 0
       /\ InCycle(lock)
       /\ \A w \in Workers \ {lock} : req'[w] = req[w]

C14_RestartExclusive == []C14_Exclusive /\ [][C14_Step]_vars

C14_Witness ==
  /\ lock = 1
  /\ req[1].pc = "wait"
  /\ lightRunning
  /\ req[2].kind = "brighter" /\ req[2].pc = "start"
  /\ ~ENABLED brighter_handler_change(2)
  /\ ~ENABLED lock_restart(2)

\* C15: concurrent /brighter requests lose no update: with no other request
\* storing a value since the batch began at value v, the stored value after N
\* of them is what N successive change(5.0) calls make of v, which is
\* min(200, v + 5N) when the sums v + 5, .., v + 5N are f32 values (a sum that
\* is not is rounded); N concurrent /darker requests give max(10, v - 5N).
RECURSIVE Repeated(_, _, _)
Repeated(v, amount, n) ==
  IF n = 0 THEN v ELSE Repeated(change(v, amount), amount, n - 1)

Least(a, b) == IF a < b THEN a ELSE b

Greatest(a, b) == IF a > b THEN a ELSE b

C15_SumAsClaimed ==
  (Settled /\ ledger.kind = "brighter") =>
    value = Fin(Least(200 * U, ledger.start.n + 5 * U * ledger.n))

C15_NoLostUpdate ==
  /\ ledger.kind = "brighter" =>
       /\ value = Repeated(ledger.start, Five, ledger.n)
       /\ (\A i \in 1..ledger.n : IsF32(ledger.start.n + 5 * U * i)) =>
            value = Fin(Least(200 * U, ledger.start.n + 5 * U * ledger.n))
  /\ ledger.kind = "darker" =>
       /\ value = Repeated(ledger.start, MinusFive, ledger.n)
       /\ value = Fin(Greatest(10 * U, ledger.start.n - 5 * U * ledger.n))

C15_Witness ==
  /\ started = 2
  /\ \A w \in Workers : req[w].kind = "brighter" /\ req[w].pc = "restart"
  /\ ledger.kind = "brighter"
  /\ ledger.n = 2
  /\ ledger.start = Fin(150 * U)
  /\ value = Fin(160 * U)

\* C16: a handler that is about to take the lock for its restart does not
\* hold it already, and with every worker thread kept running and every wait
\* on `light` returning, every request that a handler has begun comes to its
\* end: a response, or the unwinding of the handler after a failed restart.
Ended(w) == req[w].pc \in {"done", "panicked"}

C16_NotHeld == \A w \in Workers : req[w].pc = "restart" => lock # w

C16_EveryRequestEnds ==
  /\ []C16_NotHeld
  /\ \A w \in Workers : (req[w].pc = "start") ~> Ended(w)

C16_Witness ==
  /\ started = 2
  /\ req[1].kind = "set" /\ req[1].pc = "done" /\ req[1].spawns = 1
  /\ req[2].kind = "brighter" /\ req[2].pc = "done" /\ req[2].spawns = 1
  /\ lock = 0

====
